---- MODULE Spec2Model ----
(***************************************************************************)
(* A model of anymap's AnyMap (src/src/lib.rs): a HashMap from TypeId to   *)
(* Box<Any>, hashed by the pass-through TypeIdHasher, read back through    *)
(* the unchecked downcasts.                                                *)
(*                                                                         *)
(* A TypeId and the hasher's u64 state are kept as their 8 bytes of        *)
(* memory.  A Box<Any> is a record [id, vtable, data]: id names the        *)
(* allocation (the value that was passed to insert), vtable is the real    *)
(* dynamic type of the content, data is the content.  An Option is a       *)
(* sequence: None is <<>>, Some(v) is <<v>>.                               *)
(***************************************************************************)
EXTENDS Integers, Sequences, FiniteSets, TLC

\* How many values are ever passed to insert (allocations of `box value`).
MaxBoxes == 3
\* The values of each type are 0..MaxVal.
MaxVal == 1

\* The types T the call sites choose.
Types == {"int", "Foo", "bool"}
Values == 0..MaxVal
BoxIds == 1..MaxBoxes

None == <<>>
Some(v) == <<v>>

VARIABLES
    alive,      \* the AnyMap exists (constructed and not yet out of scope)
    data,       \* AnyMap.data: the set of occupied slots [hash, key, value]
    nextId,     \* the next allocation `box value` makes
    returned,   \* returned[i]: how often value i was handed back to a caller
    dropped,    \* dropped[i]: how often the destructor of value i ran
    wacky,      \* an unchecked downcast was applied to a box of another type
    pre,        \* AnyMap.data as it was when the last call began
    last        \* the last call: [op, ty, arg, res, obj, panic]

vars == <<alive, data, nextId, returned, dropped, wacky, pre, last>>

----------------------------------------------------------------------------
\* TypeId::of with a collision: Foo and bool get the same identity.
TypeId_of_colliding(T) ==
    CASE T = "int"  -> <<17, 203, 4, 96, 250, 31, 8, 140>>
      [] T = "Foo"  -> <<17, 7, 161, 96, 2, 88, 199, 65>>
      [] T = "bool" -> <<17, 7, 161, 96, 2, 88, 199, 65>>

\* TypeId::of::<T>(): the compiler's 64-bit identity of T, as its 8 bytes.
TypeId_of(T) ==
    CASE T = "int"  -> <<17, 203, 4, 96, 250, 31, 8, 140>>
      [] T = "Foo"  -> <<17, 7, 161, 96, 2, 88, 199, 65>>
      [] T = "bool" -> <<230, 203, 4, 12, 250, 31, 8, 141>>

\* impl Hash for TypeId: feeds its single u64 to the state in one write.
TypeId_hash_bytes(k) == k

\* write with the assertion and the copy sized for a 32-bit value.
write_asserts_4(state, bytes) ==
    IF Len(bytes) = 4
    THEN [value |-> SubSeq(bytes, 1, 4), panic |-> state.panic]
    ELSE [value |-> state.value, panic |-> TRUE]

\* TypeIdState::write: expects exactly 8 bytes (debug_assert) and copies one
\* u64 from &bytes[0] over self.value.  A call with another length fails the
\* assertion before the copy (a build with debug assertions; the only caller,
\* the Hash of a TypeId, always passes 8 bytes).
write(state, bytes) ==
    IF Len(bytes) = 8
    THEN [value |-> SubSeq(bytes, 1, 8), panic |-> state.panic]
    ELSE [value |-> state.value, panic |-> TRUE]

\* TypeIdHasher::hash: a zeroed state, one write, the state's value.
hash(k) ==
    LET state == [value |-> <<0, 0, 0, 0, 0, 0, 0, 0>>, panic |-> FALSE]
    IN  write(state, TypeId_hash_bytes(k))

----------------------------------------------------------------------------
\* self.data.get(&k) / get_mut(&k) / contains_key(&k): the slots that k's
\* hash selects and whose key equals k.
data_get(d, k) == {s \in d : s.hash = hash(k).value /\ s.key = k}

\* insert that appends a slot without vacating the one k already has.
data_insert_push(d, k, b) ==
    d \cup {[hash |-> hash(k).value, key |-> k, value |-> b]}

\* self.data.insert(k, b): the slot of k gets b; the old box, if any, is
\* the result.
data_insert(d, k, b) ==
    (d \ data_get(d, k)) \cup {[hash |-> hash(k).value, key |-> k, value |-> b]}

\* remove that looks the slot up and leaves it occupied.
data_remove_keeps(d, k) == d

\* self.data.remove(&k): the slot of k is vacated.
data_remove(d, k) == d \ data_get(d, k)

\* clear that releases spare capacity and keeps the occupied slots.
data_clear_keeps(d) == d

\* self.data.clear(): every slot is vacated.
data_clear(d) == {}

\* The boxes that an operation on d found under k (none or one).
Found(d, k) == {s.value : s \in data_get(d, k)}

----------------------------------------------------------------------------
\* downcast_ref_unchecked that transmutes to.vtable instead of to.data: the
\* view is whatever the vtable's bytes give.
downcast_ref_unchecked_vtable(any, T) == Values

\* downcast_ref_unchecked::<T>: the data pointer of the trait object read as
\* &T.  On a box of another type the view is whatever the bytes give.
downcast_ref_unchecked(any, T) ==
    IF any.vtable = T THEN {any.data} ELSE Values

\* downcast_mut_unchecked::<T>: the same, as &mut T.
downcast_mut_unchecked(any, T) ==
    IF any.vtable = T THEN {any.data} ELSE Values

\* downcast_unchecked without forget(self): the Box<Any> is dropped at the end
\* of the function although its content was moved out.
downcast_unchecked_no_forget(any, T) ==
    [vals |-> IF any.vtable = T THEN {any.data} ELSE Values,
     destructor_runs |-> TRUE]

\* downcast_unchecked that transmutes to.vtable instead of to.data.
downcast_unchecked_vtable(any, T) ==
    [vals |-> Values, destructor_runs |-> FALSE]

\* downcast_unchecked::<T>: the data pointer as Box<T>; forget(self) keeps the
\* destructor of the Box<Any> from running on the value that is moved out.
downcast_unchecked(any, T) ==
    [vals |-> IF any.vtable = T THEN {any.data} ELSE Values,
     destructor_runs |-> FALSE]

\* `box value as Box<Any>`: a fresh allocation holding value, erased.
box_value(T, value) == [id |-> nextId, vtable |-> T, data |-> value]

Miscast(found, T) == \E any \in found : any.vtable # T

Call(op, T, arg, res, obj, panic) ==
    [op |-> op, ty |-> T, arg |-> arg, res |-> res, obj |-> obj, panic |-> panic]

----------------------------------------------------------------------------
\* What the read-only calls return on a map whose data is self.

\* AnyMap::get::<T>(): the possible results.
get(self, T) ==
    LET found == Found(self, TypeId_of(T))
    IN  IF found = {} THEN {None}
        ELSE {Some(v) : v \in UNION {downcast_ref_unchecked(any, T) : any \in found}}

\* AnyMap::contains::<T>()
contains(self, T) == data_get(self, TypeId_of(T)) # {}

\* AnyMap::len()
len(self) == Cardinality(self)

\* AnyMap::is_empty()
is_empty(self) == self = {}

----------------------------------------------------------------------------
Init ==
    /\ alive = TRUE
    /\ data = {}
    /\ nextId = 1
    /\ returned = [i \in BoxIds |-> 0]
    /\ dropped = [i \in BoxIds |-> 0]
    /\ wacky = FALSE
    /\ pre = {}
    /\ last = Call("new", "-", None, None, 0, FALSE)

\* AnyMap::new(), once the previous map is gone.
New ==
    /\ ~alive
    /\ alive' = TRUE
    /\ data' = {}
    /\ pre' = data
    /\ last' = Call("new", "-", None, None, 0, FALSE)
    /\ UNCHANGED <<nextId, returned, dropped, wacky>>

\* AnyMap::get::<T>()
Get(T) ==
    /\ alive
    /\ LET found == Found(data, TypeId_of(T))
       IN  /\ \E r \in get(data, T) :
                last' = Call("get", T, None, r,
                             IF found = {} THEN 0 ELSE (CHOOSE any \in found : TRUE).id,
                             hash(TypeId_of(T)).panic)
           /\ wacky' = (wacky \/ Miscast(found, T))
    /\ pre' = data
    /\ UNCHANGED <<alive, data, nextId, returned, dropped>>

\* get_mut that hands out a reference to a copy of the stored value: the
\* caller's write never reaches the box in the slot.
GetMut_on_copy(T, w) ==
    /\ alive
    /\ LET k == TypeId_of(T)
           found == Found(data, k)
       IN  /\ IF found = {}
              THEN last' = Call("get_mut", T, None, None, 0, hash(k).panic)
              ELSE LET any == CHOOSE b \in found : TRUE
                   IN  \E v \in downcast_mut_unchecked(any, T) :
                          last' = Call("get_mut", T, Some(w), Some(v), any.id,
                                       hash(k).panic)
           /\ wacky' = (wacky \/ Miscast(found, T))
    /\ pre' = data
    /\ UNCHANGED <<alive, data, nextId, returned, dropped>>

\* AnyMap::get_mut::<T>(), and the caller's write of w through the &mut T it
\* got (as in data.get_mut::<Foo>().map(|foo| ...)); on None nothing is written.
\* The write goes to the box in the slot: same allocation, new content.
GetMut(T, w) ==
    /\ alive
    /\ LET k == TypeId_of(T)
           found == Found(data, k)
       IN  /\ IF found = {}
              THEN /\ last' = Call("get_mut", T, None, None, 0, hash(k).panic)
                   /\ data' = data
              ELSE LET any == CHOOSE b \in found : TRUE
                   IN  /\ \E v \in downcast_mut_unchecked(any, T) :
                            last' = Call("get_mut", T, Some(w), Some(v), any.id,
                                         hash(k).panic)
                       /\ data' = {IF s \in data_get(data, k)
                                   THEN [s EXCEPT !.value.data = w] ELSE s : s \in data}
           /\ wacky' = (wacky \/ Miscast(found, T))
    /\ pre' = data
    /\ UNCHANGED <<alive, nextId, returned, dropped>>

\* The body of insert, for the key k it computes.
insert_keyed(k, T, value) ==
    /\ alive
    /\ nextId <= MaxBoxes
    /\ LET found == Found(data, k)
       IN  /\ data' = data_insert(data, k, box_value(T, value))
           /\ nextId' = nextId + 1
           /\ IF found = {}
              THEN /\ last' = Call("insert", T, Some(value), None, 0, hash(k).panic)
                   /\ UNCHANGED <<returned, dropped>>
              ELSE LET any == CHOOSE b \in found : TRUE
                       out == downcast_unchecked(any, T)
                   IN  /\ \E v \in out.vals :
                            last' = Call("insert", T, Some(value), Some(v), any.id,
                                         hash(k).panic)
                       /\ returned' = [returned EXCEPT ![any.id] = @ + 1]
                       /\ dropped' = [dropped EXCEPT ![any.id] =
                                        @ + (IF out.destructor_runs THEN 1 ELSE 0)]
           /\ wacky' = (wacky \/ Miscast(found, T))
    /\ pre' = data
    /\ UNCHANGED alive

\* insert keyed by the TypeId of the erased Box<Any> instead of T's.
Insert_erased_key(T, value) ==
    insert_keyed(<<90, 14, 201, 7, 33, 180, 66, 5>>, T, value)

\* AnyMap::insert::<T>(value): keyed by TypeId::of::<T>().
Insert(T, value) == insert_keyed(TypeId_of(T), T, value)

\* AnyMap::remove::<T>()
Remove(T) ==
    /\ alive
    /\ LET k == TypeId_of(T)
           found == Found(data, k)
       IN  /\ data' = data_remove(data, k)
           /\ IF found = {}
              THEN /\ last' = Call("remove", T, None, None, 0, hash(k).panic)
                   /\ UNCHANGED <<returned, dropped>>
              ELSE LET any == CHOOSE b \in found : TRUE
                       out == downcast_unchecked(any, T)
                   IN  /\ \E v \in out.vals :
                            last' = Call("remove", T, None, Some(v), any.id,
                                         hash(k).panic)
                       /\ returned' = [returned EXCEPT ![any.id] = @ + 1]
                       /\ dropped' = [dropped EXCEPT ![any.id] =
                                        @ + (IF out.destructor_runs THEN 1 ELSE 0)]
           /\ wacky' = (wacky \/ Miscast(found, T))
    /\ pre' = data
    /\ UNCHANGED <<alive, nextId>>

\* AnyMap::contains::<T>()
Contains(T) ==
    /\ alive
    /\ last' = Call("contains", T, None, contains(data, T), 0,
                    hash(TypeId_of(T)).panic)
    /\ pre' = data
    /\ UNCHANGED <<alive, data, nextId, returned, dropped, wacky>>

\* AnyMap::len()
LenCall ==
    /\ alive
    /\ last' = Call("len", "-", None, len(data), 0, FALSE)
    /\ pre' = data
    /\ UNCHANGED <<alive, data, nextId, returned, dropped, wacky>>

\* AnyMap::is_empty()
IsEmpty ==
    /\ alive
    /\ last' = Call("is_empty", "-", None, is_empty(data), 0, FALSE)
    /\ pre' = data
    /\ UNCHANGED <<alive, data, nextId, returned, dropped, wacky>>

\* The destructors of the boxes in the slots of d run, once each.
drop_all(d) ==
    [i \in BoxIds |-> dropped[i] + Cardinality({s \in d : s.value.id = i})]

\* AnyMap::clear(): every stored box is dropped.
Clear ==
    /\ alive
    /\ data' = data_clear(data)
    /\ dropped' = drop_all(data \ data')
    /\ pre' = data
    /\ last' = Call("clear", "-", None, None, 0, FALSE)
    /\ UNCHANGED <<alive, nextId, returned, wacky>>

\* The AnyMap goes out of scope: its HashMap and every stored box is dropped.
Drop ==
    /\ alive
    /\ alive' = FALSE
    /\ data' = {}
    /\ dropped' = drop_all(data)
    /\ pre' = data
    /\ last' = Call("drop", "-", None, None, 0, FALSE)
    /\ UNCHANGED <<nextId, returned, wacky>>

Next ==
    \/ New
    \/ \E T \in Types : Get(T)
    \/ \E T \in Types, w \in Values : GetMut(T, w)
    \/ \E T \in Types, value \in Values : Insert(T, value)
    \/ \E T \in Types : Remove(T)
    \/ \E T \in Types : Contains(T)
    \/ LenCall
    \/ IsEmpty
    \/ Clear
    \/ Drop

Spec == Init /\ [][Next]_vars
----------------------------------------------------------------------------
\* Ground truth the claims are stated against: the real dynamic type of the
\* stored boxes, not the keys.
Stored(d, T) == \E s \in d : s.value.vtable = T
StoredBox(d, T) == (CHOOSE s \in d : s.value.vtable = T).value
InStore(i) == Cardinality({s \in data : s.value.id = i})

\* C1: in every reachable state each entry stored under TypeId::of::<T>()
\* holds a box whose real type is exactly T (T being one of the types used),
\* and no unchecked downcast has been applied to a box of another type.
C1_TypeSafe ==
    /\ \A s \in data :
          /\ s.value.vtable \in Types
          /\ s.key = TypeId_of(s.value.vtable)
    /\ ~wacky

\* C1 witness: three types are stored at once and a downcast has just been
\* applied to a stored box.
C1_Witness ==
    /\ Cardinality({s.value.vtable : s \in data}) = 3
    /\ last.op = "get_mut"
    /\ last.res # None

\* C2: right after insert(v) for type T, get::<T>() is Some(&v) and
\* contains::<T>() is true, whether or not T was stored before.
C2_RoundTrip ==
    last.op = "insert" =>
        /\ get(data, last.ty) = {last.arg}
        /\ contains(data, last.ty)

\* C2 witness: an insert that replaced a different value of the same type.
C2_Witness ==
    /\ last.op = "insert"
    /\ last.res # None
    /\ last.res # last.arg

\* C3: insert::<T>(v2) returns Some(v1) when v1 was stored for T and None
\* when nothing was; afterwards the store holds v2 for T, in exactly one entry.
C3_InsertReturnsPrevious ==
    last.op = "insert" =>
        LET T == last.ty IN
        /\ last.res = (IF Stored(pre, T) THEN Some(StoredBox(pre, T).data) ELSE None)
        /\ Cardinality({s \in data : s.value.vtable = T}) = 1
        /\ Some(StoredBox(data, T).data) = last.arg
        /\ Cardinality(data_get(data, TypeId_of(T))) = 1

\* C3 witness: an insert over a stored value, while another type is stored.
C3_Witness ==
    /\ last.op = "insert"
    /\ Stored(pre, last.ty)
    /\ last.res # None
    /\ Cardinality(data) >= 2

\* C4: remove::<T>() on a store holding v for T returns Some(v); after a
\* remove, contains::<T>() is false and get::<T>() is None, and they stay so
\* over every step that is not an insert of a value of type T.
C4_RemoveState ==
    last.op = "remove" =>
        LET T == last.ty IN
        /\ Stored(pre, T) => last.res = Some(StoredBox(pre, T).data)
        /\ ~contains(data, T)
        /\ get(data, T) = {None}

C4_AbsentUntilInsert ==
    \A T \in Types :
        (/\ ~contains(data, T)
         /\ ~(last'.op = "insert" /\ last'.ty = T))
        => (~contains(data', T) /\ get(data', T) = {None})

C4_RemoveClearsPresence == [](C4_RemoveState) /\ [][C4_AbsentUntilInsert]_vars

\* C4 witness: a stored value has just been removed and handed back.
C4_Witness ==
    /\ last.op = "remove"
    /\ Stored(pre, last.ty)
    /\ last.res # None
    /\ data # {}

\* C5: insert::<A>, remove::<A> and a write through get_mut::<A> leave
\* contains::<B>() and get::<B>() as they were, for every type B other than A.
C5_Independence ==
    last.op \in {"insert", "remove", "get_mut"} =>
        \A B \in Types \ {last.ty} :
            /\ contains(data, B) = contains(pre, B)
            /\ get(data, B) = get(pre, B)

\* C5 witness: an insert of a new type while two other types are stored.
C5_Witness ==
    /\ last.op = "insert"
    /\ last.res = None
    /\ Cardinality(pre) = 2
    /\ Cardinality(data) = 3

\* C6: len() is the number of types T with contains::<T>(), is_empty() is
\* len() = 0; a new store has len 0, an insert of a type not stored raises len
\* by 1, an insert of a stored type keeps it, a remove of a stored type lowers
\* it by 1; the len and is_empty calls report these.
C6_SizeAccounting ==
    /\ len(data) = Cardinality({T \in Types : contains(data, T)})
    /\ len(data) = Cardinality({T \in Types : Stored(data, T)})
    /\ is_empty(data) <=> (len(data) = 0)
    /\ last.op = "new" => len(data) = 0
    /\ last.op = "insert" =>
          len(data) = len(pre) + (IF Stored(pre, last.ty) THEN 0 ELSE 1)
    /\ (last.op = "remove" /\ Stored(pre, last.ty)) => len(data) = len(pre) - 1
    /\ last.op = "len" => last.res = Cardinality({T \in Types : Stored(data, T)})
    /\ last.op = "is_empty" => last.res = (\A T \in Types : ~Stored(data, T))

\* C6 witness: len() has just reported 2 on a store that had an overwrite.
C6_Witness ==
    /\ last.op = "len"
    /\ last.res = 2
    /\ \E i \in BoxIds : returned[i] = 1

\* C7: after clear(), len() is 0, is_empty() is true, and for every type T
\* contains::<T>() is false and get::<T>() is None.
C7_ClearEmpties ==
    last.op = "clear" =>
        /\ len(data) = 0
        /\ is_empty(data)
        /\ \A T \in Types : ~contains(data, T) /\ get(data, T) = {None}

\* C7 witness: a clear of a store that held two types.
C7_Witness ==
    /\ last.op = "clear"
    /\ Cardinality(pre) >= 2

\* C8: for a type T that is not stored, get, get_mut and remove return None
\* and contains returns false, the contents and len() are as before the call;
\* and no call ends in a panic.
C8_AbsenceOnly ==
    /\ ~last.panic
    /\ (last.op \in {"get", "get_mut", "remove"} /\ ~Stored(pre, last.ty)) =>
          /\ last.res = None
          /\ data = pre
          /\ len(data) = len(pre)
    /\ (last.op = "contains" /\ ~Stored(pre, last.ty)) =>
          /\ last.res = FALSE
          /\ data = pre

\* C8 witness: a remove of a type that is absent from a store holding others.
C8_Witness ==
    /\ last.op = "remove"
    /\ ~Stored(pre, last.ty)
    /\ Cardinality(pre) >= 2

\* C9: when T is stored, get_mut::<T>() returns Some reference to the stored
\* value; what is written through it is what get::<T>() returns from then on
\* (until a call that writes or takes T's value) and what a remove::<T>() or
\* overwriting insert::<T>() hands back; len() and the types present are
\* unchanged by the call.
C9_GetMutState ==
    /\ (last.op = "get_mut" /\ Stored(pre, last.ty)) =>
          LET T == last.ty IN
          /\ last.res = Some(StoredBox(pre, T).data)
          /\ last.obj = StoredBox(pre, T).id
          /\ get(data, T) = {last.arg}
          /\ StoredBox(data, T).id = last.obj
          /\ len(data) = len(pre)
          /\ \A B \in Types : contains(data, B) = contains(pre, B)
    /\ (last.op \in {"remove", "insert"} /\ Stored(pre, last.ty)) =>
          get(pre, last.ty) = {last.res}

C9_ValuePersists ==
    \A T \in Types :
        (/\ contains(data, T)
         /\ ~(last'.op \in {"get_mut", "insert", "remove"} /\ last'.ty = T)
         /\ last'.op \notin {"clear", "drop"})
        => get(data', T) = get(data, T)

C9_InPlaceMutation == [](C9_GetMutState) /\ [][C9_ValuePersists]_vars

\* C9 witness: a write through get_mut changed the stored value.
C9_Witness ==
    /\ last.op = "get_mut"
    /\ last.res # None
    /\ last.arg # last.res
    /\ Cardinality(data) >= 2

\* C10: every value passed to insert is in exactly one place: in the store,
\* handed back to a caller, or dropped; never two of them, never twice; a
\* value handed back by remove or by an overwriting insert is no longer in
\* the store.
C10_SingleOwnership ==
    /\ \A i \in BoxIds :
          InStore(i) + returned[i] + dropped[i] = (IF i < nextId THEN 1 ELSE 0)
    /\ (last.op \in {"remove", "insert"} /\ last.obj # 0) =>
          /\ InStore(last.obj) = 0
          /\ returned[last.obj] = 1
          /\ dropped[last.obj] = 0

\* C10 witness: an overwriting insert has just handed a value back, while
\* another value is in the store and a third was dropped.
C10_Witness ==
    /\ \E i \in BoxIds : InStore(i) = 1
    /\ \E i \in BoxIds : returned[i] = 1
    /\ \E i \in BoxIds : dropped[i] = 1
    /\ last.op = "insert"
    /\ last.res # None
====
